---- MODULE Spec2Model ----
(***************************************************************************)
(* Model of src/from-ava-to-jest.ts: the six rewrite passes that turn an   *)
(* AVA test file into a Jest test file, run in order by transformer.       *)
(*                                                                         *)
(* The syntax tree is a value: a node is a record with a "type" field and  *)
(* the fields of that node kind.  A path is the sequence of child indices  *)
(* that leads from the root to a node, children taken in traversal order.  *)
(***************************************************************************)
EXTENDS Naturals, Sequences, FiniteSets, TLC

VARIABLES
  tree,     \* the syntax tree the passes mutate
  history,  \* history[k]: the tree as pass k of this run found it
  pc,       \* the number of passes of this run that have returned
  run,      \* 1, and 2 when the transformer runs on its own output
  thrown,   \* a pass threw: the run ends with no output
  log       \* the diagnostics of this run, in order

vars == <<tree, history, pc, run, thrown, log>>

(***************************************************************************)
(* Bounds of the checked inputs.                                           *)
(***************************************************************************)
MaxStmts == 2
MaxMembers == 2
MaxTypeParams == 2

(***************************************************************************)
(* Rule tables (lines 5-43).                                               *)
(***************************************************************************)
SPECIAL_THROWS_CASE == "(special throws case)"
SPECIAL_BOOL == "(special bool case)"
SPECIAL_PLAN_CASE == "(special plan case)"

tPropertiesMapKeys ==
  {"ok", "truthy", "falsy", "notOk", "true", "false", "is", "not", "same",
   "deepEqual", "notSame", "notDeepEqual", "throws", "notThrows", "regex",
   "notRegex", "ifError", "error", "plan", "snapshot"}

tPropertiesMapValue(name) ==
  CASE name \in {"ok", "truthy"} -> "toBeTruthy"
    [] name \in {"falsy", "notOk", "ifError", "error"} -> "toBeFalsy"
    [] name \in {"true", "false"} -> SPECIAL_BOOL
    [] name = "is" -> "toBe"
    [] name = "not" -> "not.toBe"
    [] name \in {"same", "deepEqual"} -> "toEqual"
    [] name \in {"notSame", "notDeepEqual"} -> "not.toEqual"
    [] name \in {"throws", "notThrows"} -> SPECIAL_THROWS_CASE
    [] name = "regex" -> "toMatch"
    [] name = "notRegex" -> "not.toMatch"
    [] name = "plan" -> SPECIAL_PLAN_CASE
    [] name = "snapshot" -> "toMatchSnapshot"

\* tPropertiesMap is an object literal, so an index expression on it also
\* finds what every object inherits from Object.prototype: functions.
ObjectPrototypeKeys ==
  {"constructor", "toString", "valueOf", "hasOwnProperty", "isPrototypeOf",
   "propertyIsEnumerable", "toLocaleString"}

\* The value of tPropertiesMap[name], with its typeof.
tPropertiesMap(name) ==
  IF name \in tPropertiesMapKeys
    THEN [typeof |-> "string", value |-> tPropertiesMapValue(name)]
    ELSE IF name \in ObjectPrototypeKeys
      THEN [typeof |-> "function", value |-> name]
      ELSE [typeof |-> "undefined", value |-> ""]

tPropertiesNotMapped == {"end", "fail", "pass"}

avaToJestLifecycleKeys ==
  {"before", "after", "beforeEach", "afterEach", "only", "skip", "failing", "todo"}

avaToJestLifecycleMethods(name) ==
  CASE name = "before" -> "beforeAll"
    [] name = "after" -> "afterAll"
    [] name = "beforeEach" -> "beforeEach"
    [] name = "afterEach" -> "afterEach"
    [] name = "only" -> "test.only"
    [] name \in {"skip", "failing"} -> "test.skip"
    [] name = "todo" -> "test.todo"

(***************************************************************************)
(* Nodes.  The builders are the jscodeshift builders the passes call; the  *)
(* other constructors build what the parser yields.                        *)
(***************************************************************************)
\* The value of an index past the end of an argument list, and of a field
\* that is not there.
Undefined == [type |-> "undefined"]
Null == [type |-> "null"]

ExpressionTypes ==
  {"Identifier", "StringLiteral", "NumericLiteral", "NullLiteral", "MemberExpression",
   "CallExpression", "AwaitExpression", "ArrowFunctionExpression",
   "FunctionExpression", "ObjectExpression", "TSAsExpression"}

FunctionTypes == {"ArrowFunctionExpression", "FunctionExpression"}

StatementTypes ==
  {"ExpressionStatement", "VariableDeclaration", "ImportDeclaration",
   "TSTypeAliasDeclaration", "BlockStatement"}

IsExpression(n) == n.type \in ExpressionTypes

identifier(name) == [type |-> "Identifier", name |-> name]
stringLiteral(value) == [type |-> "StringLiteral", value |-> value]
nullLiteral == [type |-> "NullLiteral"]
memberExpression(object, property) ==
  [type |-> "MemberExpression", object |-> object, property |-> property]
callExpression(callee, arguments) ==
  [type |-> "CallExpression", callee |-> callee, arguments |-> arguments]
expressionStatement(expression) ==
  [type |-> "ExpressionStatement", expression |-> expression]
awaitExpression(argument) == [type |-> "AwaitExpression", argument |-> argument]
blockStatement(body) == [type |-> "BlockStatement", body |-> body]
functionExpression(params, body) ==
  [type |-> "FunctionExpression", params |-> params, body |-> body]
arrowFunctionExpression(params, body) ==
  [type |-> "ArrowFunctionExpression", params |-> params, body |-> body]
variableDeclarator(id, init) ==
  [type |-> "VariableDeclarator", id |-> id, init |-> init]
variableDeclaration(declarations) ==
  [type |-> "VariableDeclaration", kind |-> "const", declarations |-> declarations]
importDeclaration(source) == [type |-> "ImportDeclaration", source |-> source]
objectProperty(key, value) == [type |-> "ObjectProperty", key |-> key, value |-> value]
objectExpression(properties) == [type |-> "ObjectExpression", properties |-> properties]
tsAsExpression(expression, typeAnnotation) ==
  [type |-> "TSAsExpression", expression |-> expression, typeAnnotation |-> typeAnnotation]
tsTypeReference(typeName, typeParameters) ==
  [type |-> "TSTypeReference", typeName |-> typeName, typeParameters |-> typeParameters]
tsTypeParameterInstantiation(params) ==
  [type |-> "TSTypeParameterInstantiation", params |-> params]
tsTypeLiteral(members) == [type |-> "TSTypeLiteral", members |-> members]
tsPropertySignature(key) == [type |-> "TSPropertySignature", key |-> key]
tsMethodSignature(key) == [type |-> "TSMethodSignature", key |-> key]
tsNumberKeyword == [type |-> "TSNumberKeyword"]
tsTypeAliasDeclaration(id, typeAnnotation) ==
  [type |-> "TSTypeAliasDeclaration", id |-> id, typeAnnotation |-> typeAnnotation]
program(body) == [type |-> "Program", body |-> body]

\* A builder checks every field against the field's type and throws when one
\* does not fit: an argument list holding undefined is no list of expressions.
callExpressionBuilds(callee, arguments) ==
  /\ IsExpression(callee)
  /\ \A i \in 1..Len(arguments) : IsExpression(arguments[i])

(***************************************************************************)
(* The tree: children in traversal order, paths, replacement.              *)
(***************************************************************************)
Kids(n) ==
  CASE n.type \in {"Program", "BlockStatement"} -> n.body
    [] n.type = "VariableDeclaration" -> n.declarations
    [] n.type = "VariableDeclarator" ->
         IF n.init = Null THEN <<n.id>> ELSE <<n.id, n.init>>
    [] n.type = "ExpressionStatement" -> <<n.expression>>
    [] n.type = "AwaitExpression" -> <<n.argument>>
    [] n.type = "CallExpression" -> <<n.callee>> \o n.arguments
    [] n.type = "MemberExpression" -> <<n.object, n.property>>
    [] n.type \in FunctionTypes -> n.params \o <<n.body>>
    [] n.type = "TSAsExpression" -> <<n.expression>>
    [] OTHER -> <<>>

WithKids(n, ks) ==
  CASE n.type \in {"Program", "BlockStatement"} -> [n EXCEPT !.body = ks]
    [] n.type = "VariableDeclaration" -> [n EXCEPT !.declarations = ks]
    [] n.type = "VariableDeclarator" ->
         IF n.init = Null THEN [n EXCEPT !.id = ks[1]]
         ELSE [n EXCEPT !.id = ks[1], !.init = ks[2]]
    [] n.type = "ExpressionStatement" -> [n EXCEPT !.expression = ks[1]]
    [] n.type = "AwaitExpression" -> [n EXCEPT !.argument = ks[1]]
    [] n.type = "CallExpression" ->
         [n EXCEPT !.callee = ks[1], !.arguments = Tail(ks)]
    [] n.type = "MemberExpression" ->
         [n EXCEPT !.object = ks[1], !.property = ks[2]]
    [] n.type \in FunctionTypes ->
         [n EXCEPT !.params = SubSeq(ks, 1, Len(ks) - 1), !.body = ks[Len(ks)]]
    [] n.type = "TSAsExpression" -> [n EXCEPT !.expression = ks[1]]
    [] OTHER -> n

RECURSIVE Flatten(_)
Flatten(ss) == IF ss = <<>> THEN <<>> ELSE Head(ss) \o Flatten(Tail(ss))

\* Every path of the tree under n, in the order a traversal visits the nodes.
RECURSIVE AllPaths(_)
AllPaths(n) ==
  LET ks == Kids(n)
      under(i) == LET ps == AllPaths(ks[i]) IN [j \in 1..Len(ps) |-> <<i>> \o ps[j]]
  IN <<<<>>>> \o Flatten([i \in 1..Len(ks) |-> under(i)])

RECURSIVE NodeAt(_, _)
NodeAt(n, path) ==
  IF path = <<>> THEN n ELSE NodeAt(Kids(n)[Head(path)], Tail(path))

RECURSIVE ReplaceAt(_, _, _)
ReplaceAt(n, path, new) ==
  IF path = <<>> THEN new
  ELSE LET ks == Kids(n)
       IN WithKids(n, [ks EXCEPT ![Head(path)] = ReplaceAt(ks[Head(path)], Tail(path), new)])

Front(s) == SubSeq(s, 1, Len(s) - 1)
Last(s) == s[Len(s)]
IsPrefix(p, q) == Len(p) <= Len(q) /\ SubSeq(q, 1, Len(p)) = p

(***************************************************************************)
(* Pass 1: removeImport (lines 69-77).                                     *)
(***************************************************************************)
IsAvaImport(n) == n.type = "ImportDeclaration" /\ n.source = "ava"

RECURSIVE removeImport(_)
removeImport(n) ==
  LET keep == SelectSeq(Kids(n), LAMBDA k : ~IsAvaImport(k))
  IN WithKids(n, [i \in 1..Len(keep) |-> removeImport(keep[i])])

(***************************************************************************)
(* Pass 2: generateSharedContext (lines 79-149).                           *)
(***************************************************************************)
\* What the filter { name: ... } reads: the name of a node that has one.
NameOf(n) == IF n.type = "Identifier" THEN n.name ELSE ""

IsTestDeclarator(n) == n.type = "VariableDeclarator" /\ NameOf(n.id) = "test"

\* root.find(j.VariableDeclarator, { id: { name: 'test' } }): the paths of the
\* matching nodes, in traversal order.
findTestDeclarators(root) ==
  SelectSeq(AllPaths(root), LAMBDA p : IsTestDeclarator(NodeAt(root, p)))

\* The early returns with the third one taken unless there is exactly one
\* type parameter.
generateSharedContextAbortUnlessOne(root) ==
  LET testVariableDeclarator == findTestDeclarators(root)
  IN IF Len(testVariableDeclarator) = 0 THEN "No test variable found."
     ELSE LET testVariable == NodeAt(root, testVariableDeclarator[1])
          IN IF \/ testVariable.init = Null
                \/ testVariable.init.type # "TSAsExpression"
                \/ testVariable.init.typeAnnotation.type # "TSTypeReference"
               THEN "No test variable foun or invalid type."
             ELSE LET typeAnnotation == testVariable.init.typeAnnotation
                  IN IF \/ typeAnnotation.typeParameters = Null
                        \/ Len(typeAnnotation.typeParameters.params) # 1
                       THEN "No type parameters found in TestFn."
                     ELSE IF typeAnnotation.typeParameters.params[1].type # "TSTypeLiteral"
                       THEN "Invalid type literal."
                       ELSE ""

\* The diagnostic of the early return taken, "" when none is taken.
generateSharedContextAbort(root) ==
  LET testVariableDeclarator == findTestDeclarators(root)
  IN IF Len(testVariableDeclarator) = 0 THEN "No test variable found."
     ELSE LET testVariable == NodeAt(root, testVariableDeclarator[1])
          IN IF \/ testVariable.init = Null
                \/ testVariable.init.type # "TSAsExpression"
                \/ testVariable.init.typeAnnotation.type # "TSTypeReference"
               THEN "No test variable foun or invalid type."
             ELSE LET typeAnnotation == testVariable.init.typeAnnotation
                  IN IF \/ typeAnnotation.typeParameters = Null
                        \/ Len(typeAnnotation.typeParameters.params) = 0
                       THEN "No type parameters found in TestFn."
                     ELSE IF typeAnnotation.typeParameters.params[1].type # "TSTypeLiteral"
                       THEN "Invalid type literal."
                       ELSE ""

\* The properties without the test on the member's kind.
sharedContextPropertiesOfAnyMember(specificType) ==
  LET kept == SelectSeq(specificType.members, LAMBDA m : m.key.type = "Identifier")
  IN [i \in 1..Len(kept) |-> objectProperty(identifier(kept[i].key.name), nullLiteral)]

\* The object properties of the shared context: one per property signature
\* with an identifier key, the other members dropped by filter(Boolean).
sharedContextProperties(specificType) ==
  LET kept == SelectSeq(specificType.members,
                LAMBDA m : m.type = "TSPropertySignature" /\ m.key.type = "Identifier")
  IN [i \in 1..Len(kept) |-> objectProperty(identifier(kept[i].key.name), nullLiteral)]

sharedContextTypeAlias(specificType) ==
  tsTypeAliasDeclaration(identifier("SharedContextType"), specificType)

sharedContextDeclaration(specificType) ==
  variableDeclaration(<<
    variableDeclarator(
      [type |-> "Identifier", name |-> "sharedContext",
       typeAnnotation |-> tsTypeReference("SharedContextType", Null)],
      objectExpression(sharedContextProperties(specificType)))>>)

\* closest(j.Statement): the nearest enclosing statement, from the parent up.
RECURSIVE closestStatement(_, _)
closestStatement(root, path) ==
  LET parent == Front(path)
  IN IF NodeAt(root, parent).type \in StatementTypes \/ parent = <<>>
       THEN parent
       ELSE closestStatement(root, parent)

RECURSIVE Unique(_)
Unique(s) ==
  IF s = <<>> THEN <<>>
  ELSE LET rest == Unique(Front(s))
       IN IF \E i \in 1..Len(rest) : rest[i] = Last(s) THEN rest ELSE Append(rest, Last(s))

\* insertBefore and insertAfter on the statement at path sp.
InsertAround(root, sp, before, after) ==
  LET container == NodeAt(root, Front(sp))
      ks == Kids(container)
      i == Last(sp)
  IN ReplaceAt(root, Front(sp),
       WithKids(container,
         SubSeq(ks, 1, i - 1) \o <<before, ks[i], after>> \o SubSeq(ks, i + 1, Len(ks))))

\* The insertions at every statement of sps[1..k]; the last statement first,
\* so that the paths still to be used stay valid.
RECURSIVE InsertAroundAll(_, _, _, _, _)
InsertAroundAll(root, sps, k, before, after) ==
  IF k = 0 THEN root
  ELSE InsertAroundAll(InsertAround(root, sps[k], before, after), sps, k - 1, before, after)

\* remove() of the declarator at path dp: the declarator goes, and a
\* declaration left without declarators goes with it.
RemoveDeclarator(root, dp) ==
  LET sp == Front(dp)
      declaration == NodeAt(root, sp)
      ds == declaration.declarations
      left == SubSeq(ds, 1, Last(dp) - 1) \o SubSeq(ds, Last(dp) + 1, Len(ds))
      container == NodeAt(root, Front(sp))
      ks == Kids(container)
  IN IF left # <<>>
       THEN ReplaceAt(root, sp, [declaration EXCEPT !.declarations = left])
       ELSE ReplaceAt(root, Front(sp),
              WithKids(container,
                SubSeq(ks, 1, Last(sp) - 1) \o SubSeq(ks, Last(sp) + 1, Len(ks))))

\* get() is the first path only: one declarator is removed, whatever the
\* number of statements the insertions were made at.
RemovedDeclarators(testVariableDeclarator) == <<testVariableDeclarator[1]>>

\* A soft abort that has already removed the old test variable.
softAbortAfterRemove(root, message) ==
  LET found == findTestDeclarators(root)
  IN [tree |-> IF found = <<>> THEN root ELSE RemoveDeclarator(root, found[1]),
      log |-> <<[pass |-> "generateSharedContext", message |-> message]>>]

\* console.log(message); return
softAbort(root, message) ==
  [tree |-> root, log |-> <<[pass |-> "generateSharedContext", message |-> message]>>]

generateSharedContext(root) ==
  LET testVariableDeclarator == findTestDeclarators(root)
      abort == generateSharedContextAbort(root)
  IN IF abort # "" THEN softAbort(root, abort)
     ELSE LET testVariable == NodeAt(root, testVariableDeclarator[1])
              specificType == testVariable.init.typeAnnotation.typeParameters.params[1]
              testVariableStatement ==
                Unique([i \in 1..Len(testVariableDeclarator) |->
                          closestStatement(root, testVariableDeclarator[i])])
              inserted == InsertAroundAll(root, testVariableStatement,
                            Len(testVariableStatement),
                            sharedContextTypeAlias(specificType),
                            sharedContextDeclaration(specificType))
              removed == RemovedDeclarators(testVariableDeclarator)
              \* the alias put before the first statement moved it one place on
              moved(dp) == LET sp == Front(dp)
                           IN Front(sp) \o <<Last(sp) + 1>> \o <<Last(dp)>>
          IN [tree |-> RemoveDeclarator(inserted, moved(removed[1])), log |-> <<>>]

(***************************************************************************)
(* Pass 3: updateSharedContextReferences (lines 151-166).                  *)
(***************************************************************************)
IsTContext(n) ==
  /\ n.type = "MemberExpression"
  /\ n.object.type = "Identifier" /\ n.object.name = "t"
  /\ n.property.type = "Identifier" /\ n.property.name = "context"

RECURSIVE updateSharedContextReferences(_)
updateSharedContextReferences(n) ==
  IF IsTContext(n) THEN identifier("sharedContext")
  ELSE LET ks == Kids(n)
       IN WithKids(n, [i \in 1..Len(ks) |-> updateSharedContextReferences(ks[i])])

(***************************************************************************)
(* Pass 4: adjustTestDefinitions (lines 168-183).                          *)
(***************************************************************************)
IsTestCall(n) == n.type = "CallExpression" /\ NameOf(n.callee) = "test"

clearParams(call) ==
  IF Len(call.arguments) > 1 /\ call.arguments[2].type \in FunctionTypes
    THEN [call EXCEPT !.arguments[2].params = <<>>]
    ELSE call

RECURSIVE adjustTestDefinitions(_)
adjustTestDefinitions(n) ==
  LET m == IF IsTestCall(n) THEN clearParams(n) ELSE n
      ks == Kids(m)
  IN WithKids(m, [i \in 1..Len(ks) |-> adjustTestDefinitions(ks[i])])

(***************************************************************************)
(* Pass 5: updateAssertions (lines 185-240).                               *)
(***************************************************************************)
IsAssertionCall(n) ==
  /\ n.type = "CallExpression"
  /\ n.callee.type = "MemberExpression"
  /\ NameOf(n.callee.object) = "t"
  /\ NameOf(n.callee.property) \notin tPropertiesNotMapped

\* root.find(j.CallExpression, { callee: ... }): the paths of the matching
\* calls, in traversal order.
findAssertionCalls(root) ==
  SelectSeq(AllPaths(root), LAMBDA p : IsAssertionCall(NodeAt(root, p)))

\* args[i - 1] of the source: undefined past the end of the list.
ArgAt(args, i) == IF i <= Len(args) THEN args[i] ELSE Undefined

expectCall(argument) == callExpression(identifier("expect"), <<argument>>)

\* true / false with the test on the old name dropped.
boolExpressionAlwaysTruthy(oldPropertyName, args) ==
  expressionStatement(
    callExpression(
      memberExpression(expectCall(ArgAt(args, 1)), identifier("toBeTruthy")),
      <<>>))

\* The node built for true / false (lines 203-210).
boolExpression(oldPropertyName, args) ==
  expressionStatement(
    callExpression(
      memberExpression(expectCall(ArgAt(args, 1)),
        identifier(IF oldPropertyName = "true" THEN "toBeTruthy" ELSE "toBeFalsy")),
      <<>>))

\* The node built for plan (lines 212-219).
planExpression(args) ==
  expressionStatement(
    callExpression(
      memberExpression(identifier("expect"), identifier("assertions")),
      <<ArgAt(args, 1)>>))

\* The node built for throws / notThrows (lines 221-229).
throwsExpression(oldPropertyName, args) ==
  expressionStatement(
    callExpression(
      memberExpression(expectCall(functionExpression(<<>>, blockStatement(<<>>))),
        identifier(IF oldPropertyName = "throws" THEN "toThrow" ELSE "not.toThrow")),
      IF Len(args) > 1 THEN <<args[2]>> ELSE <<>>))

\* The plain rename with the two arguments exchanged.
renameExpressionSwapped(newPropertyName, args) ==
  expressionStatement(
    callExpression(
      memberExpression(expectCall(ArgAt(args, 2)), identifier(newPropertyName)),
      <<ArgAt(args, 1)>>))

\* The node built for a plain rename (lines 231-236).
renameExpression(newPropertyName, args) ==
  expressionStatement(
    callExpression(
      memberExpression(expectCall(ArgAt(args, 1)), identifier(newPropertyName)),
      <<ArgAt(args, 2)>>))

\* What the callback does with one matched call: warn and return, throw out
\* of a builder, or replace the call by the node built.
assertionOutcome(call) ==
  LET args == call.arguments
      oldPropertyName == NameOf(call.callee.property)
      newPropertyName == tPropertiesMap(oldPropertyName)
      is(tag) == newPropertyName.typeof = "string" /\ newPropertyName.value = tag
      outcome(builds, node) ==
        IF builds THEN [kind |-> "replace", name |-> oldPropertyName, node |-> node]
        ELSE [kind |-> "throw", name |-> oldPropertyName, node |-> Undefined]
  IN IF newPropertyName.typeof = "undefined"
       THEN [kind |-> "warn", name |-> oldPropertyName, node |-> Undefined]
     ELSE IF is(SPECIAL_BOOL)
       THEN outcome(callExpressionBuilds(identifier("expect"), <<ArgAt(args, 1)>>),
                    boolExpression(oldPropertyName, args))
     ELSE IF is(SPECIAL_PLAN_CASE)
       THEN outcome(callExpressionBuilds(identifier("expect"), <<ArgAt(args, 1)>>),
                    planExpression(args))
     ELSE IF is(SPECIAL_THROWS_CASE)
       THEN outcome(TRUE, throwsExpression(oldPropertyName, args))
     ELSE outcome(/\ callExpressionBuilds(identifier("expect"), <<ArgAt(args, 1)>>)
                  /\ newPropertyName.typeof = "string"
                  /\ callExpressionBuilds(expectCall(ArgAt(args, 1)), <<ArgAt(args, 2)>>),
                  renameExpression(newPropertyName.value, args))

notSupported(name) ==
  [pass |-> "updateAssertions", message |-> "\"" \o name \o "\" is currently not supported"]

\* forEach over the paths found, in order, until a callback throws.  A path
\* under a call already replaced no longer leads into the tree: replacing
\* there changes the detached call only.
RECURSIVE updateAssertionsFrom(_, _, _, _)
updateAssertionsFrom(original, sites, k, st) ==
  IF k > Len(sites) \/ st.thrown THEN st
  ELSE LET o == assertionOutcome(NodeAt(original, sites[k]))
           detached == \E i \in 1..Len(st.replaced) : IsPrefix(st.replaced[i], sites[k])
       IN updateAssertionsFrom(original, sites, k + 1,
            CASE o.kind = "warn" -> [st EXCEPT !.log = Append(@, notSupported(o.name))]
              [] o.kind = "throw" -> [st EXCEPT !.thrown = TRUE]
              [] o.kind = "replace" ->
                   [st EXCEPT !.tree = IF detached THEN @ ELSE ReplaceAt(@, sites[k], o.node),
                              !.replaced = Append(@, sites[k])])

updateAssertions(root) ==
  updateAssertionsFrom(root, findAssertionCalls(root), 1,
    [tree |-> root, log |-> <<>>, thrown |-> FALSE, replaced |-> <<>>])

(***************************************************************************)
(* Pass 6: rewriteTestCallExpression (lines 262-292).                      *)
(***************************************************************************)
IsTestMemberCall(n) ==
  /\ n.type = "CallExpression"
  /\ n.callee.type = "MemberExpression"
  /\ NameOf(n.callee.object) = "test"

IsStringLiteral(n) == n.type = "StringLiteral"

\* The callback read after the title was shifted out (line 284).
callbackIndex == 2

rewriteCall(call) ==
  LET lifecycleMethod == NameOf(call.callee.property)
      shifted == IF Len(call.arguments) > 0 /\ IsStringLiteral(call.arguments[1])
                   THEN Tail(call.arguments) ELSE call.arguments
      callback == ArgAt(shifted, callbackIndex)
      stripped == IF /\ callback.type \in FunctionTypes
                     /\ Len(callback.params) > 0
                     /\ NameOf(callback.params[1]) = "t"
                    THEN [shifted EXCEPT ![callbackIndex].params = Tail(@)]
                    ELSE shifted
  IN IF lifecycleMethod \in avaToJestLifecycleKeys
       THEN [call EXCEPT !.callee = identifier(avaToJestLifecycleMethods(lifecycleMethod)),
                         !.arguments = stripped]
       ELSE call

RECURSIVE rewriteTestCallExpression(_)
rewriteTestCallExpression(n) ==
  LET m == IF IsTestMemberCall(n) THEN rewriteCall(n) ELSE n
      ks == Kids(m)
  IN WithKids(m, [i \in 1..Len(ks) |-> rewriteTestCallExpression(ks[i])])

(***************************************************************************)
(* The input files: what j(file.source) (line 47) can hand to the passes.  *)
(***************************************************************************)
P == identifier("p")
Q == identifier("q")
T == identifier("t")
Title == stringLiteral("title")
Message == stringLiteral("message")
\* t.context
TContext == memberExpression(T, identifier("context"))

SeqsUpTo(S, n) == UNION {[1..k -> S] : k \in 0..n}

\* t.<name>(args)
assertion(name, args) == callExpression(memberExpression(T, identifier(name)), args)

AssertionNames ==
  tPropertiesMapKeys \cup tPropertiesNotMapped \cup {"banana", "constructor"}

AssertionArgs == {<<>>, <<P>>, <<P, Q>>, <<TContext, Q>>, <<P, Q, Message>>}

\* test('title', (t) => { <statements> })
testCall(statements) ==
  expressionStatement(
    callExpression(identifier("test"),
      <<Title, arrowFunctionExpression(<<T>>, blockStatement(statements))>>))

\* The syntactic positions a call expression is found in.
Positions == {"statement", "await", "initializer", "argument", "testBody"}

InPosition(pos, e) ==
  CASE pos = "statement" -> expressionStatement(e)
    [] pos = "await" -> expressionStatement(awaitExpression(e))
    [] pos = "initializer" -> variableDeclaration(<<variableDeclarator(identifier("r"), e)>>)
    [] pos = "argument" -> expressionStatement(callExpression(identifier("f"), <<e>>))
    [] pos = "testBody" -> testCall(<<expressionStatement(e)>>)

AssertionStatements ==
  {InPosition(pos, assertion(name, args)) :
     pos \in Positions, name \in AssertionNames, args \in AssertionArgs}

Callbacks ==
  {arrowFunctionExpression(<<T>>, blockStatement(<<>>)),
   arrowFunctionExpression(<<>>, blockStatement(<<>>)),
   arrowFunctionExpression(<<identifier("x")>>, blockStatement(<<>>)),
   functionExpression(<<T, identifier("x")>>, blockStatement(<<>>))}

\* test.<name>(args)
LifecycleArgs ==
  {<<>>, <<Title>>, <<Title, P>>}
    \cup {<<fn>> : fn \in Callbacks}
    \cup {<<Title, fn>> : fn \in Callbacks}
    \cup {<<Title, Message, fn>> : fn \in Callbacks}

lifecycleCall(name, args) ==
  expressionStatement(
    callExpression(memberExpression(identifier("test"), identifier(name)), args))

LifecycleStatements ==
  {lifecycleCall(name, args) :
     name \in avaToJestLifecycleKeys \cup {"serial"}, args \in LifecycleArgs}

TestStatements ==
  {expressionStatement(callExpression(identifier("test"), args)) :
     args \in {<<Title>>, <<Title, P>>} \cup {<<fn>> : fn \in Callbacks}
                \cup {<<Title, fn>> : fn \in Callbacks}}
    \cup {testCall(<<expressionStatement(memberExpression(TContext, identifier("a")))>>)}

\* const test = <init>
testDeclaration(init) ==
  variableDeclaration(<<variableDeclarator(identifier("test"), init)>>)

AnyTest == identifier("anyTest")

Members ==
  {tsPropertySignature(identifier("a")), tsPropertySignature(identifier("b")),
   tsPropertySignature(stringLiteral("c")), tsMethodSignature(identifier("m"))}

\* anyTest as TestFn<params>
testFn(params) ==
  tsAsExpression(AnyTest, tsTypeReference("TestFn", tsTypeParameterInstantiation(params)))

TypeParams ==
  {<<>>}
    \cup {<<first>> \o more :
            first \in {tsTypeLiteral(ms) : ms \in SeqsUpTo(Members, MaxMembers)}
                        \cup {tsNumberKeyword},
            more \in SeqsUpTo({tsNumberKeyword}, MaxTypeParams - 1)}

TestInits ==
  {Null, AnyTest, tsAsExpression(AnyTest, tsNumberKeyword),
   tsAsExpression(AnyTest, tsTypeReference("TestFn", Null))}
    \cup {testFn(params) : params \in TypeParams}

OtherStatements ==
  {importDeclaration("ava"), importDeclaration("sinon"),
   variableDeclaration(<<variableDeclarator(identifier("x"), P)>>),
   expressionStatement(memberExpression(TContext, identifier("a")))}

Statements ==
  AssertionStatements \cup LifecycleStatements \cup TestStatements
    \cup {testDeclaration(init) : init \in TestInits} \cup OtherStatements

\* The statements that files of several statements are made of.
CoreStatements ==
  {importDeclaration("ava"),
   testDeclaration(testFn(<<tsTypeLiteral(<<tsPropertySignature(identifier("a")),
                                            tsPropertySignature(stringLiteral("c"))>>)>>)),
   testDeclaration(testFn(<<tsTypeLiteral(<<tsPropertySignature(identifier("b"))>>),
                            tsNumberKeyword>>)),
   testDeclaration(tsAsExpression(AnyTest, tsTypeReference("TestFn", Null))),
   expressionStatement(memberExpression(TContext, identifier("a"))),
   testCall(<<expressionStatement(assertion("is", <<TContext, Q>>))>>),
   expressionStatement(awaitExpression(assertion("notThrows", <<P, Q>>))),
   expressionStatement(assertion("truthy", <<P>>)),
   expressionStatement(assertion("banana", <<P>>)),
   lifecycleCall("only", <<Title, arrowFunctionExpression(<<T>>, blockStatement(<<>>))>>)}

Inputs ==
  {program(<<s>>) : s \in Statements}
    \cup {program(ss) : ss \in UNION {[1..k -> CoreStatements] : k \in 2..MaxStmts}}

(***************************************************************************)
(* transformer (lines 45-67): the six passes in order.  pc counts the      *)
(* passes that have returned; thrown says that one threw, which ends the   *)
(* call with no output.                                                    *)
(***************************************************************************)
Init ==
  /\ tree \in Inputs
  /\ history = <<>>
  /\ pc = 0
  /\ run = 1
  /\ thrown = FALSE
  /\ log = <<>>

RemoveImport ==
  /\ pc = 0 /\ ~thrown
  /\ tree' = removeImport(tree)
  /\ pc' = 1
  /\ history' = Append(history, tree)
  /\ UNCHANGED <<run, thrown, log>>

GenerateSharedContext ==
  /\ pc = 1 /\ ~thrown
  /\ LET r == generateSharedContext(tree)
     IN tree' = r.tree /\ log' = log \o r.log
  /\ pc' = 2
  /\ history' = Append(history, tree)
  /\ UNCHANGED <<run, thrown>>

UpdateSharedContextReferences ==
  /\ pc = 2 /\ ~thrown
  /\ tree' = updateSharedContextReferences(tree)
  /\ pc' = 3
  /\ history' = Append(history, tree)
  /\ UNCHANGED <<run, thrown, log>>

AdjustTestDefinitions ==
  /\ pc = 3 /\ ~thrown
  /\ tree' = adjustTestDefinitions(tree)
  /\ pc' = 4
  /\ history' = Append(history, tree)
  /\ UNCHANGED <<run, thrown, log>>

UpdateAssertions ==
  /\ pc = 4 /\ ~thrown
  /\ LET r == updateAssertions(tree)
     IN /\ tree' = r.tree
        /\ log' = log \o r.log
        /\ thrown' = r.thrown
        /\ pc' = IF r.thrown THEN 4 ELSE 5
  /\ history' = Append(history, tree)
  /\ UNCHANGED run

RewriteTestCallExpression ==
  /\ pc = 5 /\ ~thrown
  /\ tree' = rewriteTestCallExpression(tree)
  /\ pc' = 6
  /\ history' = Append(history, tree)
  /\ UNCHANGED <<run, thrown, log>>

\* The transformer applied to the tree it produced.
Rerun ==
  /\ pc = 6 /\ ~thrown /\ run = 1
  /\ history' = <<>>
  /\ pc' = 0
  /\ run' = 2
  /\ log' = <<>>
  /\ UNCHANGED <<tree, thrown>>

Next ==
  \/ RemoveImport
  \/ GenerateSharedContext
  \/ UpdateSharedContextReferences
  \/ AdjustTestDefinitions
  \/ UpdateAssertions
  \/ RewriteTestCallExpression
  \/ Rerun

Spec == Init /\ [][Next]_vars

(***************************************************************************)
(* The properties.                                                         *)
(***************************************************************************)
\* The paths of the nodes of the tree that match, in traversal order.
Find(root, Matches(_)) == SelectSeq(AllPaths(root), LAMBDA p : Matches(NodeAt(root, p)))

\* The tree as the pass that ran last found it.
Before == history[Len(history)]

\* Pass k is the one that ran last (it returned, or it threw).
JustRan(k) == Len(history) = k

\* The call expression a replacement carries: updateAssertions wraps what it
\* builds in an expression statement.
Converted(n) == IF n.type = "ExpressionStatement" THEN n.expression ELSE n

\* t.<name>(...) with name among names
IsAssertion(n, names) ==
  /\ n.type = "CallExpression"
  /\ n.callee.type = "MemberExpression"
  /\ n.callee.object = T
  /\ n.callee.property.type = "Identifier"
  /\ n.callee.property.name \in names

AssertionSites(root, names) == Find(root, LAMBDA n : IsAssertion(n, names))

InSeq(s) == {s[i] : i \in 1..Len(s)}

Count(s, x) == Cardinality({i \in 1..Len(s) : s[i] = x})

PlainRenameNames ==
  {"ok", "truthy", "falsy", "notOk", "is", "not", "same", "deepEqual", "notSame",
   "notDeepEqual", "regex", "notRegex", "ifError", "error", "snapshot"}

SpecialNames == {"true", "false", "plan", "throws", "notThrows"}

\* test.<hook>('title', fn), hook in the lifecycle table
IsHookCall(n) ==
  /\ n.type = "CallExpression"
  /\ n.callee.type = "MemberExpression"
  /\ n.callee.object = identifier("test")
  /\ n.callee.property.type = "Identifier"
  /\ n.callee.property.name \in avaToJestLifecycleKeys
  /\ Len(n.arguments) = 2
  /\ n.arguments[1].type = "StringLiteral"
  /\ n.arguments[2].type \in FunctionTypes

WithoutLeadingT(fn) ==
  IF fn.params # <<>> /\ fn.params[1] = T THEN [fn EXCEPT !.params = Tail(@)] ELSE fn

\* C1: after rewriteTestCallExpression every test.<hook>('title', fn) is the
\* call <destination name>(fn): the title is gone, fn is the only argument,
\* and a first parameter t of fn has been removed.
C1_HookCallRewritten ==
  (JustRan(6) /\ pc = 6) =>
    \A p \in InSeq(Find(Before, IsHookCall)) :
      LET old == NodeAt(Before, p)
      IN NodeAt(tree, p) =
           callExpression(
             identifier(avaToJestLifecycleMethods(old.callee.property.name)),
             <<WithoutLeadingT(old.arguments[2])>>)

SpecialForm(old) ==
  LET name == old.callee.property.name
      args == old.arguments
      expect(a) == callExpression(identifier("expect"), <<a>>)
  IN CASE name = "true" ->
            callExpression(memberExpression(expect(args[1]), identifier("toBeTruthy")), <<>>)
       [] name = "false" ->
            callExpression(memberExpression(expect(args[1]), identifier("toBeFalsy")), <<>>)
       [] name = "plan" ->
            callExpression(
              memberExpression(identifier("expect"), identifier("assertions")), <<args[1]>>)
       [] name = "throws" ->
            callExpression(
              memberExpression(expect(functionExpression(<<>>, blockStatement(<<>>))),
                               identifier("toThrow")),
              IF Len(args) < 2 THEN <<>> ELSE <<args[2]>>)
       [] name = "notThrows" ->
            callExpression(
              memberExpression(expect(functionExpression(<<>>, blockStatement(<<>>))),
                               identifier("not.toThrow")),
              IF Len(args) < 2 THEN <<>> ELSE <<args[2]>>)

IsUnmappedCall(n) ==
  /\ n.type = "CallExpression"
  /\ n.callee.type = "MemberExpression"
  /\ n.callee.object = T
  /\ n.callee.property.type = "Identifier"
  /\ n.callee.property.name \notin tPropertiesMapKeys \cup tPropertiesNotMapped

\* No call of the file lacks an argument its conversion reads.
EveryMappedCallHasTwoArguments(root) ==
  \A p \in InSeq(AssertionSites(root, tPropertiesMapKeys)) :
    Len(NodeAt(root, p).arguments) >= 2

\* C4: updateAssertions leaves every t.<name>(...) whose name is neither a key
\* of the table nor excluded as it is and emits exactly one diagnostic for it,
\* still converts the mapped calls of the tree, and leaves the excluded calls
\* as they are with no diagnostic.  (Stated for the files in which no mapped
\* call is short of arguments.)
C4_UnmappedLeftWithOneDiagnostic ==
  (JustRan(5) /\ EveryMappedCallHasTwoArguments(Before)) =>
    LET unmapped == Find(Before, IsUnmappedCall)
        warnings == SelectSeq(log, LAMBDA d : d.pass = "updateAssertions")
    IN /\ ~thrown /\ pc = 5
       /\ \A p \in InSeq(unmapped) :
            LET name == NodeAt(Before, p).callee.property.name
            IN /\ NodeAt(tree, p) = NodeAt(Before, p)
               /\ Count(warnings, notSupported(name)) =
                    Cardinality({q \in InSeq(unmapped) :
                                   NodeAt(Before, q).callee.property.name = name})
       /\ Len(warnings) = Len(unmapped)
       /\ \A p \in InSeq(AssertionSites(Before, tPropertiesNotMapped)) :
            NodeAt(tree, p) = NodeAt(Before, p)
       /\ \A p \in InSeq(AssertionSites(Before, tPropertiesMapKeys)) :
            /\ NodeAt(tree, p) # NodeAt(Before, p)
            /\ Converted(NodeAt(tree, p)).type = "CallExpression"

\* The shapes generateSharedContext gives up on.
SoftAbortShape(root) ==
  LET found == Find(root, IsTestDeclarator)
  IN \/ found = <<>>
     \/ LET init == NodeAt(root, found[1]).init
        IN \/ init = Null
           \/ init.type # "TSAsExpression"
           \/ init.typeAnnotation.type # "TSTypeReference"
           \/ init.typeAnnotation.typeParameters = Null
           \/ init.typeAnnotation.typeParameters.params = <<>>
           \/ init.typeAnnotation.typeParameters.params[1].type # "TSTypeLiteral"

\* The passes that have run after generateSharedContext in this run.  Every
\* pass records the tree it starts from, generateSharedContext as the second.
LaterPasses == Len(history) - 2

\* C5: when generateSharedContext soft-aborts, the tree after the pass is the
\* tree before it (no alias, no sharedContext variable, the test declaration
\* untouched) and the run goes on to the next pass; the passes that follow it
\* in a run that reaches its end are four.
C5_SoftAbortLeavesTree ==
  /\ (JustRan(2) /\ SoftAbortShape(Before)) =>
       /\ tree = Before
       /\ pc = 2 /\ ~thrown
  /\ (pc = 6 /\ SoftAbortShape(history[2])) =>
       /\ history[3] = history[2]
       /\ LaterPasses = 4

\* C5 as stated: after a soft abort the tree is left as it was and five later
\* passes run.
C5_FiveLaterPassesRun ==
  (pc = 6 /\ SoftAbortShape(history[2])) =>
    /\ history[3] = history[2]
    /\ LaterPasses = 5

C5_Witness ==
  /\ pc = 6 /\ SoftAbortShape(history[2])
  /\ Find(history[2], IsTestDeclarator) # <<>>
  /\ NodeAt(history[2], Find(history[2], IsTestDeclarator)[1]).init # Null
  /\ NodeAt(history[2], Find(history[2], IsTestDeclarator)[1]).init.type = "TSAsExpression"
  /\ history[3] = history[2]

\* The type parameters of the first test declarator's type reference; <<>>
\* when it has no list of them.  Defined for a declarator initialised with a
\* type assertion to a type reference.
TypeParamsOf(declarator) ==
  IF declarator.init.typeAnnotation.typeParameters = Null THEN <<>>
  ELSE declarator.init.typeAnnotation.typeParameters.params

HasTypeReference(declarator) ==
  /\ declarator.init # Null
  /\ declarator.init.type = "TSAsExpression"
  /\ declarator.init.typeAnnotation.type = "TSTypeReference"

\* The names of the identifier-keyed property signatures, in order.
SignatureNames(literal) ==
  LET kept == SelectSeq(literal.members,
                LAMBDA m : m.type = "TSPropertySignature" /\ m.key.type = "Identifier")
  IN [i \in 1..Len(kept) |-> kept[i].key.name]

IsSharedContextAlias(n, literal) ==
  /\ n.type = "TSTypeAliasDeclaration"
  /\ n.id.name = "SharedContextType"
  /\ n.typeAnnotation = literal

IsSharedContextVariable(n, literal) ==
  /\ n.type = "VariableDeclaration" /\ n.kind = "const"
  /\ Len(n.declarations) = 1
  /\ n.declarations[1].id.name = "sharedContext"
  /\ n.declarations[1].id.typeAnnotation.typeName = "SharedContextType"
  /\ n.declarations[1].init.type = "ObjectExpression"
  /\ LET properties == n.declarations[1].init.properties
         names == SignatureNames(literal)
     IN /\ Len(properties) = Len(names)
        /\ \A i \in 1..Len(names) :
             /\ properties[i].key = identifier(names[i])
             /\ properties[i].value.type = "NullLiteral"

\* The alias stands where the statement at path sp stood and the variable
\* right after it.
ContextInsertedAt(root, sp, literal) ==
  LET body == Kids(NodeAt(root, Front(sp)))
  IN /\ Len(body) > Last(sp)
     /\ IsSharedContextAlias(body[Last(sp)], literal)
     /\ IsSharedContextVariable(body[Last(sp) + 1], literal)

\* C6: for a test variable typed with exactly one inline type literal, after
\* generateSharedContext, updateSharedContextReferences and
\* adjustTestDefinitions the alias SharedContextType stands where the statement
\* stood, const sharedContext: SharedContextType with one null field per
\* identifier-keyed property signature (in order) right after it, the test
\* declarator is gone, and no t.context is left.
C6_SharedContextBuilt ==
  (JustRan(4) /\ pc = 4) =>
    LET found == Find(history[2], IsTestDeclarator)
    IN (/\ found # <<>>
        /\ HasTypeReference(NodeAt(history[2], found[1]))
        /\ Len(TypeParamsOf(NodeAt(history[2], found[1]))) = 1
        /\ TypeParamsOf(NodeAt(history[2], found[1]))[1].type = "TSTypeLiteral")
       => /\ ContextInsertedAt(tree, Front(found[1]),
                               TypeParamsOf(NodeAt(history[2], found[1]))[1])
          /\ Len(Find(tree, IsTestDeclarator)) = Len(found) - 1
          /\ Find(tree, IsTContext) = <<>>

C6_Witness ==
  /\ JustRan(4) /\ pc = 4
  /\ Len(Find(history[2], IsTestDeclarator)) = 1
  /\ HasTypeReference(NodeAt(history[2], Find(history[2], IsTestDeclarator)[1]))
  /\ LET params == TypeParamsOf(NodeAt(history[2], Find(history[2], IsTestDeclarator)[1]))
     IN /\ Len(params) = 1 /\ params[1].type = "TSTypeLiteral"
        /\ Len(SignatureNames(params[1])) = 1 /\ Len(params[1].members) = 2
  /\ Find(history[3], IsTContext) # <<>>

\* C7: the six passes are idempotent on their own output: run on the tree they
\* produced, they leave it as it is.
C7_Idempotent ==
  (run = 2 /\ JustRan(6) /\ pc = 6) => tree = history[1]

\* C8: generateSharedContext proceeds only when the type reference carries
\* exactly one type parameter: with none, or with two or more, it leaves the
\* tree as it is.
C8_ExactlyOneTypeParameter ==
  JustRan(2) =>
    LET found == Find(Before, IsTestDeclarator)
    IN (/\ found # <<>>
        /\ HasTypeReference(NodeAt(Before, found[1]))
        /\ Len(TypeParamsOf(NodeAt(Before, found[1]))) # 1)
       => tree = Before

\* C8 as amended: generateSharedContext proceeds only when the type reference
\* carries at least one type parameter: with none it leaves the tree as it is;
\* with two or more it proceeds on the first one alone, as with exactly one.
C8_AtLeastOneTypeParameter ==
  JustRan(2) =>
    LET found == Find(Before, IsTestDeclarator)
    IN (found # <<>> /\ HasTypeReference(NodeAt(Before, found[1]))) =>
         LET params == TypeParamsOf(NodeAt(Before, found[1]))
         IN /\ params = <<>> => tree = Before
            /\ (Len(params) >= 1 /\ params[1].type = "TSTypeLiteral") =>
                 /\ tree # Before
                 /\ ContextInsertedAt(tree, Front(found[1]), params[1])
            /\ (Len(params) >= 1 /\ params[1].type # "TSTypeLiteral") => tree = Before

C8_Witness ==
  /\ JustRan(2)
  /\ Find(Before, IsTestDeclarator) # <<>>
  /\ HasTypeReference(NodeAt(Before, Find(Before, IsTestDeclarator)[1]))
  /\ Len(TypeParamsOf(NodeAt(Before, Find(Before, IsTestDeclarator)[1]))) >= 2
  /\ tree # Before

\* A use of the shared context: the identifier updateSharedContextReferences
\* puts in place of t.context.
IsSharedContextReference(n) == n = identifier("sharedContext")

IsSharedContextDeclarator(n) ==
  n.type = "VariableDeclarator" /\ n.id.type = "Identifier" /\ n.id.name = "sharedContext"

\* C9: after the pipeline the shared-context variable exists wherever it is
\* referenced: a tree that holds a sharedContext put in place of a t.context
\* holds the declaration of sharedContext too.
C9_ReferencedContextExists ==
  (JustRan(6) /\ pc = 6) =>
    ((Find(history[3], IsTContext) # <<>> /\ Find(tree, IsSharedContextReference) # <<>>)
       => Find(tree, IsSharedContextDeclarator) # <<>>)

\* The node in every slot is of the kind the slot takes.
SlotsFit(n) ==
  CASE n.type \in {"Program", "BlockStatement"} ->
         \A i \in 1..Len(n.body) : n.body[i].type \in StatementTypes
    [] n.type = "ExpressionStatement" -> IsExpression(n.expression)
    [] n.type = "AwaitExpression" -> IsExpression(n.argument)
    [] n.type = "VariableDeclarator" -> n.init = Null \/ IsExpression(n.init)
    [] n.type = "CallExpression" ->
         /\ IsExpression(n.callee)
         /\ \A i \in 1..Len(n.arguments) : IsExpression(n.arguments[i])
    [] OTHER -> TRUE

WellFormed(root) == \A p \in InSeq(AllPaths(root)) : SlotsFit(NodeAt(root, p))

\* C10: every pass returns and leaves the tree well-formed: every entry of an
\* argument list is a node, also when an assertion is called with fewer
\* arguments than its conversion reads, and what updateAssertions puts in place
\* of a call fits where the call stood (no expression statement where an
\* expression belongs).
C10_TreeStaysWellFormed ==
  ~thrown /\ WellFormed(tree)

====
